---- MODULE Spec2Model ----
(***************************************************************************)
(* Model of InfinitePlexLibrary (src/index.ts, src/systems/plex.ts).       *)
(*                                                                         *)
(* Two independent parts of the program are modelled:                      *)
(*   - the availability pollers monitorAvailability (movie mode) and       *)
(*     monitorSeasonAvailability (season mode): a setInterval timer whose  *)
(*     callback is an async function, so every await is a suspension point *)
(*     and the timer may fire again while an earlier callback is pending;  *)
(*   - the two webhook endpoints and handleEvent, with the filesystem and  *)
(*     the outbound collaborator calls they make.                          *)
(* handleEvent never calls a poller, so the two parts share no state: each *)
(* has its own specification (SpecPoller, SpecWeb); Spec is both.          *)
(* SpecMonitors is about several invocations of the pollers at once, each  *)
(* tick of an invocation taken as one step.  SpecParts has the runs of     *)
(* SpecPoller and those of SpecWeb, for what is said about both parts.     *)
(***************************************************************************)
EXTENDS Integers, Sequences, FiniteSets, TLC

VARIABLES
    \* ---- poller (one invocation of monitorAvailability / monitorSeasonAvailability)
    mode,          \* "movie" or "season": which of the two functions was called
    attempts,      \* let attempts
    timerActive,   \* the interval of setInterval is not cleared yet
    pollState,     \* "Polling" until the promise is resolved, then the branch that resolved it
    ticks,         \* the timer callbacks in flight, by slot
    stopCalls,     \* number of terminateStreamByFile calls issued
    satisfiedCount,\* times the "available" branch ran clearInterval/resolve
    timedOutCount, \* times the "time limit exceeded" branch ran clearInterval/resolve
    failure,       \* "none", or what a rejected status fetch led to: "warned", "exited";
                   \* "raised" if a description update raised its error to the callback
    lastTick,      \* summary of the callback that completed in the last step
    \* ---- webhook endpoints, handleEvent, filesystem
    config4K,      \* config.RADARR_4K_URL is set
    fs,            \* the filesystem: directories, files, symbolic links
    reqs,          \* the webhook requests being handled, by slot
    \* ---- invocations of monitorAvailability / monitorSeasonAvailability, by slot
    monitors       \* target, attempts, and whether the interval is not cleared yet

pollerVars == <<mode, attempts, timerActive, pollState, ticks, stopCalls,
                satisfiedCount, timedOutCount, failure, lastTick>>

webVars == <<config4K, fs, reqs>>

vars == <<pollerVars, webVars, monitors>>

(***************************************************************************)
(* Bounds and program constants.                                           *)
(***************************************************************************)
maxRetries == 60

MaxInFlight == 2

MaxExtraTicks == 2

NumEpisodes == 2

Slots == 1..MaxInFlight

(***************************************************************************)
(* Poller: statuses the acquisition backend can report.                    *)
(***************************************************************************)
NoMovie == [present |-> FALSE, hasFile |-> FALSE, relativePath |-> "undefined"]

MovieStatuses ==
    { NoMovie,
      [present |-> TRUE, hasFile |-> FALSE, relativePath |-> "undefined"],
      [present |-> TRUE, hasFile |-> TRUE,  relativePath |-> "dummy.mp4"],
      [present |-> TRUE, hasFile |-> TRUE,  relativePath |-> "movie.mkv"],
      [present |-> TRUE, hasFile |-> TRUE,  relativePath |-> "undefined"] }

\* movie && movie.hasFile && movie.movieFile?.relativePath !== "dummy.mp4"
MovieAvailable(movie) ==
    movie.present /\ movie.hasFile /\ movie.relativePath # "dummy.mp4"

\* an episode: hasFile, and episodeFile (present or not) with its relativePath
EpisodeStatuses ==
    { [hasFile |-> FALSE, episodeFile |-> FALSE, relativePath |-> "undefined"],
      [hasFile |-> TRUE,  episodeFile |-> TRUE,  relativePath |-> "dummy.mp4"],
      [hasFile |-> TRUE,  episodeFile |-> TRUE,  relativePath |-> "episode.mkv"],
      [hasFile |-> TRUE,  episodeFile |-> FALSE, relativePath |-> "undefined"] }

\* (ep) => !ep.hasFile || (ep.episodeFile && ep.episodeFile.relativePath === "dummy.mp4")
EpisodeUnavailable(ep) ==
    ~ep.hasFile \/ (ep.episodeFile /\ ep.relativePath = "dummy.mp4")

\* faulty variant: the filter forgets the placeholder sentinel and counts only !ep.hasFile
UnavailableCount_NoSentinel(episodes) ==
    Cardinality({i \in DOMAIN episodes : ~episodes[i].hasFile})

\* episodes.filter(...).length
UnavailableCount(episodes) ==
    Cardinality({i \in DOMAIN episodes : EpisodeUnavailable(episodes[i])})

EpisodeLists == [1..NumEpisodes -> EpisodeStatuses]

IdleTick == [pc |-> "idle", movie |-> NoMovie, episodes |-> <<>>, n |-> 0, upd |-> 0,
             arg |-> 0]

\* n = -1: no callback completed in the last step
NoTick == [n |-> -1, episodes |-> <<>>, upd |-> 0, arg |-> 0, sat |-> FALSE,
           tout |-> FALSE, before |-> "Polling", after |-> "Polling", out |-> "none"]

\* try { ... } catch (error) { console.error(...) }: whatever the request to the media
\* server comes to, updatePlexDescription returns normally
\* faulty variant: the catch block rethrows
UpdateRaises_Rethrow(outcome) == outcome = "error"

UpdateRaises(outcome) == FALSE

InFlight == {s \in Slots : ticks[s].pc # "idle"}

FreeSlot == CHOOSE s \in Slots : ticks[s].pc = "idle" /\ \A t \in Slots : ticks[t].pc = "idle" => s <= t

\* resolve(): a promise settles once, later calls change nothing
Resolve(st, branch) == IF st = "Polling" THEN branch ELSE st

\* attempts >= maxRetries
CeilingReached(a) == a >= maxRetries

PollerInit ==
    /\ mode \in {"movie", "season"}
    /\ attempts = 0
    /\ timerActive = TRUE
    /\ pollState = "Polling"
    /\ ticks = [s \in Slots |-> IdleTick]
    /\ stopCalls = 0
    /\ satisfiedCount = 0
    /\ timedOutCount = 0
    /\ failure = "none"
    /\ lastTick = NoTick

(***************************************************************************)
(* Poller actions.  One action per resumption of the timer callback.       *)
(***************************************************************************)
\* the end of the callback, after its availability branch left the promise in state st
\* and the timer in state timer:
\* if (attempts >= maxRetries) { clearInterval(interval); resolve(); }
FinishTick(s, st, timer, sat, episodes, n, upd, arg, out) ==
    LET reached == CeilingReached(attempts)
        after == IF reached THEN Resolve(st, "TimedOut") ELSE st
    IN  /\ pollState' = after
        /\ timerActive' = (IF reached THEN FALSE ELSE timer)
        /\ timedOutCount' = timedOutCount + (IF reached THEN 1 ELSE 0)
        /\ satisfiedCount' = satisfiedCount + (IF sat THEN 1 ELSE 0)
        /\ ticks' = [ticks EXCEPT ![s] = IdleTick]
        /\ lastTick' = [n |-> n, episodes |-> episodes, upd |-> upd, arg |-> arg, sat |-> sat, tout |-> reached,
                        before |-> pollState, after |-> after, out |-> out]

\* the interval elapses: attempts++ and the first await of the callback is started
TimerFire ==
    /\ failure # "exited"
    /\ timerActive
    /\ \E s \in Slots : ticks[s].pc = "idle"
    /\ attempts < maxRetries + MaxExtraTicks
    /\ attempts' = attempts + 1
    /\ ticks' = [ticks EXCEPT ![FreeSlot] =
                    [IdleTick EXCEPT !.pc = IF mode = "movie" THEN "getMovieStatus"
                                                              ELSE "getEpisodes"]]
    /\ lastTick' = NoTick
    /\ UNCHANGED <<mode, timerActive, pollState, stopCalls, satisfiedCount,
                   timedOutCount, failure>>
    /\ UNCHANGED <<webVars, monitors>>

\* const movie = await getMovieStatus(movieId);
MovieStatusReturn(s, movie) ==
    /\ failure # "exited"
    /\ ticks[s].pc = "getMovieStatus"
    /\ ticks' = [ticks EXCEPT ![s].pc = "isMovieDownloading", ![s].movie = movie]
    /\ lastTick' = NoTick
    /\ UNCHANGED <<mode, attempts, timerActive, pollState, stopCalls,
                   satisfiedCount, timedOutCount, failure>>
    /\ UNCHANGED <<webVars, monitors>>

\* const downloading = await isMovieDownloading(movieId); then the availability test
DownloadingReturn(s) ==
    /\ failure # "exited"
    /\ ticks[s].pc = "isMovieDownloading"
    /\ IF MovieAvailable(ticks[s].movie)
       THEN /\ stopCalls' = stopCalls + 1
            /\ ticks' = [ticks EXCEPT ![s].pc = "terminateStream"]
            /\ lastTick' = NoTick
            /\ UNCHANGED <<pollState, timerActive, timedOutCount, satisfiedCount>>
       ELSE /\ FinishTick(s, pollState, timerActive, FALSE, <<>>, 0, 0, 0, "none")
            /\ UNCHANGED stopCalls
    /\ UNCHANGED <<mode, attempts, failure>>
    /\ UNCHANGED <<webVars, monitors>>

\* await terminateStreamByFile(originalFilePath) returns; clearInterval(interval); resolve();
TerminateReturn(s) ==
    /\ failure # "exited"
    /\ ticks[s].pc = "terminateStream"
    /\ FinishTick(s, Resolve(pollState, "Satisfied"), FALSE, TRUE, <<>>, 0, 0, 0, "none")
    /\ UNCHANGED <<mode, attempts, stopCalls, failure>>
    /\ UNCHANGED <<webVars, monitors>>

\* const episodes = await getEpisodesBySeriesId(...); filter; then the branch on length
EpisodesReturn(s, episodes) ==
    LET n == UnavailableCount(episodes)
    IN  /\ failure # "exited"
        /\ ticks[s].pc = "getEpisodes"
        /\ IF n = 0
           THEN FinishTick(s, Resolve(pollState, "Satisfied"), FALSE, TRUE, episodes, 0, 0, 0, "none")
           ELSE /\ ticks' = [ticks EXCEPT ![s].pc = "updateDescription", ![s].n = n,
                                          ![s].episodes = episodes,
                                          ![s].upd = ticks[s].upd + 1, ![s].arg = n]
                /\ lastTick' = NoTick
                /\ UNCHANGED <<pollState, timerActive, timedOutCount, satisfiedCount>>
        /\ UNCHANGED <<mode, attempts, stopCalls, failure>>
        /\ UNCHANGED <<webVars, monitors>>

\* await updatePlexDescription(...) is over: the request to the media server succeeded
\* or failed; a call that raised would reject the callback like a failed status fetch
UpdateReturn(s, outcome) ==
    /\ failure # "exited"
    /\ ticks[s].pc = "updateDescription"
    /\ outcome \in {"ok", "error"}
    /\ IF UpdateRaises(outcome)
       THEN /\ ticks' = [ticks EXCEPT ![s] = IdleTick]
            /\ failure' = "raised"
            /\ lastTick' = NoTick
            /\ UNCHANGED <<pollState, timerActive, timedOutCount, satisfiedCount>>
       ELSE /\ FinishTick(s, pollState, timerActive, FALSE, ticks[s].episodes, ticks[s].n,
                          ticks[s].upd, ticks[s].arg, outcome)
            /\ UNCHANGED failure
    /\ UNCHANGED <<mode, attempts, stopCalls>>
    /\ UNCHANGED <<webVars, monitors>>

\* a status fetch rejects (NetworkError): the callback's promise rejects, the rest of
\* the callback is skipped; nothing handles the rejection, so the runtime either only
\* warns or ends the process, depending on its unhandled-rejections mode
FetchFail(s, exits) ==
    /\ failure # "exited"
    /\ ticks[s].pc \in {"getMovieStatus", "isMovieDownloading", "getEpisodes"}
    /\ failure' = (IF exits THEN "exited" ELSE "warned")
    /\ ticks' = IF exits THEN [t \in Slots |-> IdleTick] ELSE [ticks EXCEPT ![s] = IdleTick]
    /\ timerActive' = (IF exits THEN FALSE ELSE timerActive)
    /\ lastTick' = NoTick
    /\ UNCHANGED <<mode, attempts, pollState, stopCalls, satisfiedCount, timedOutCount>>
    /\ UNCHANGED <<webVars, monitors>>

PollerNext ==
    \/ TimerFire
    \/ \E s \in Slots, movie \in MovieStatuses : MovieStatusReturn(s, movie)
    \/ \E s \in Slots : DownloadingReturn(s)
    \/ \E s \in Slots : TerminateReturn(s)
    \/ \E s \in Slots, episodes \in EpisodeLists : EpisodesReturn(s, episodes)
    \/ \E s \in Slots, outcome \in {"ok", "error"} : UpdateReturn(s, outcome)
    \/ \E s \in Slots, exits \in BOOLEAN : FetchFail(s, exits)


(***************************************************************************)
(* Webhook handling: paths, configuration, filesystem.                     *)
(***************************************************************************)
MaxReqs == 2

NumMovies == 1

Reqs == 1..MaxReqs

\* path.join(dir, name), path.basename(p), and the parent of a path; a path is the
\* sequence of its components
join(dir, name) == Append(dir, name)

basename(p) == p[Len(p)]

dirname(p) == SubSeq(p, 1, Len(p) - 1)

IsUnder(p, dir) == Len(p) > Len(dir) /\ SubSeq(p, 1, Len(dir)) = dir

\* config.MOVIE_FOLDER_DUMMY, config.PLEX_MOVIE_FOLDER, config.SERIES_FOLDER_DUMMY,
\* config.DUMMY_FILE_LOCATION
MOVIE_FOLDER_DUMMY == <<"dummyRoot">>

PLEX_MOVIE_FOLDER == <<"libraryRoot">>

SERIES_FOLDER_DUMMY == <<"seriesDummyRoot">>

DUMMY_FILE_LOCATION == <<"template", "dummy.mp4">>

\* movie.folderPath of the movies, series.path and episodes[0].seasonNumber of the series
MovieNames == <<"Inception (2010)", "Heat (1995)", "Alien (1979)", "Brazil (1985)">>

MovieFolders == {<<"media", MovieNames[i]>> : i \in 1..NumMovies}

SeriesFolder == <<"tv", "Severance">>

SeasonName == "Season 1"

\* path.join(config.MOVIE_FOLDER_DUMMY, path.basename(movieFolder))
movieFolderDummy(movieFolder) == join(MOVIE_FOLDER_DUMMY, basename(movieFolder))

\* path.join(config.PLEX_MOVIE_FOLDER, path.basename(movieFolder))
plexFolder(movieFolder) == join(PLEX_MOVIE_FOLDER, basename(movieFolder))

\* path.join(movieFolderDummy, "dummy.mp4")
dummyLink(movieFolder) == join(movieFolderDummy(movieFolder), "dummy.mp4")

\* path.join(config.SERIES_FOLDER_DUMMY, path.basename(seriesFolder), `Season ${seasonNumber}`)
dummySeasonFolder(seriesFolder) ==
    join(join(SERIES_FOLDER_DUMMY, basename(seriesFolder)), SeasonName)

\* the filesystem operations of ./utils
ensureDirectoryExists(f, dir) == [f EXCEPT !.dirs = @ \cup {dir}]

CanCreateDummyFile(f, template, dest) == template \in f.files /\ dirname(dest) \in f.dirs

createDummyFile(f, template, dest) == [f EXCEPT !.files = @ \cup {dest}]

createSymlink(f, target, at) ==
    [f EXCEPT !.links = {l \in @ : l.at # at} \cup {[at |-> at, to |-> target]}]

cleanUpDummyFile(f, folder) == [f EXCEPT !.files = @ \ {join(folder, "dummy.mp4")}]

IsEmptyDir(f, dir) ==
    /\ dir \in f.dirs
    /\ \A p \in f.files \cup f.dirs : ~IsUnder(p, dir)
    /\ \A l \in f.links : ~IsUnder(l.at, dir)

removeDummyFolder(f, folder) ==
    IF IsEmptyDir(f, folder) THEN [f EXCEPT !.dirs = @ \ {folder}] ELSE f

\* faulty variant: removing a target that is not there fails (ENOENT is not caught)
AbsentFails_Strict(f, path) == path \notin f.files \cup f.dirs

\* cleanUpDummyFile / removeDummyFolder on a target that is not there: a no-op, no failure
AbsentFails(f, path) == FALSE

\* the placeholder artifact of a movie: dummy directory, dummy file, symlink to it
PlaceholderPresent(f, movieFolder) ==
    /\ movieFolderDummy(movieFolder) \in f.dirs
    /\ dummyLink(movieFolder) \in f.files
    /\ [at |-> plexFolder(movieFolder), to |-> dummyLink(movieFolder)] \in f.links

(***************************************************************************)
(* Webhook bodies.                                                         *)
(***************************************************************************)
EventTypes == {"MovieAdded", "Download", "Grab", "Rename", "MovieDelete", "SeriesDelete",
               "HealthIssue", "Test", "ApplicationUpdate"}

\* detail: the body carries event.release (movie payload) / event.episodes (series payload)
NoEvent == [body |-> FALSE, eventType |-> "undefined", payload |-> "none", folder |-> <<>>,
            detail |-> TRUE]

\* the cases of handleEvent that read event.release or event.episodes
ReadsDetail(e, payload) ==
    \/ e = "Grab" /\ payload \in {"movie", "series"}
    \/ e = "Download" /\ payload = "series"

Payloads ==
    {[payload |-> "movie", folder |-> m] : m \in MovieFolders}
      \cup {[payload |-> "series", folder |-> SeriesFolder],
            [payload |-> "none", folder |-> <<>>]}

Events ==
    {NoEvent}
      \cup {[body |-> TRUE, eventType |-> x[1], payload |-> x[2].payload,
              folder |-> x[2].folder, detail |-> x[3]] :
               x \in {y \in (EventTypes \cup {"undefined", ""}) \X Payloads \X BOOLEAN :
                         y[3] \/ ReadsDetail(y[1], y[2].payload)}}

\* faulty variant: the validation tests eventType === undefined and lets an empty one through
Invalid_UndefinedOnly(ev) == ~ev.body \/ ev.eventType = "undefined"

\* !event || !event.eventType
Invalid(ev) == ~ev.body \/ ev.eventType \in {"undefined", ""}

\* the cases of handleEvent that read a field of a payload the body does not carry
ThrowsTypeError(ev) ==
    \/ ev.eventType \in {"MovieAdded", "MovieDelete"} /\ ev.payload # "movie"
    \/ ev.eventType = "SeriesDelete" /\ ev.payload # "series"
    \/ ReadsDetail(ev.eventType, ev.payload) /\ ~ev.detail

CheckResults ==
    { [exists |-> FALSE, hasFile |-> FALSE, relativePath |-> "undefined"],
      [exists |-> TRUE,  hasFile |-> FALSE, relativePath |-> "undefined"],
      [exists |-> TRUE,  hasFile |-> TRUE,  relativePath |-> "dummy.mp4"],
      [exists |-> TRUE,  hasFile |-> TRUE,  relativePath |-> "movie.mkv"],
      [exists |-> TRUE,  hasFile |-> TRUE,  relativePath |-> "undefined"] }

NoResult == [exists |-> FALSE, hasFile |-> FALSE, relativePath |-> "none"]

\* faulty variant: the Rename case asks for a rescan of the renamed folder
FirstStep_RenameRescans(ev) ==
    CASE ev.eventType = "MovieAdded" -> "ensureDirectoryExists"
      [] ev.eventType = "Download" /\ ev.payload \in {"movie", "series"} -> "cleanUpDummyFile"
      [] ev.eventType = "Rename" /\ ev.payload \in {"movie", "series"} -> "notifyPlexFolderRefresh"
      [] OTHER -> "return"

\* the awaited call that handleEvent makes first
FirstStep(ev) ==
    CASE ev.eventType = "MovieAdded" -> "ensureDirectoryExists"
      [] ev.eventType = "Download" /\ ev.payload \in {"movie", "series"} -> "cleanUpDummyFile"
      [] OTHER -> "return"

\* faulty variant: MovieAdded rescans right after the dummy file, without the symlink
NextStep_NoSymlink(ev, pc, res) ==
    CASE pc = "ensureDirectoryExists" -> "createDummyFile"
      [] pc = "createDummyFile" -> "notifyPlexFolderRefresh"
      [] pc = "cleanUpDummyFile" -> "removeDummyFolder"
      [] pc = "removeDummyFolder" -> "notifyPlexFolderRefresh"
      [] OTHER -> "return"

\* faulty variant: the search is triggered only for a movie without a file, a file at the
\* placeholder sentinel counts as content
NeedsSearch_NoSentinel(res) == res.exists /\ ~res.hasFile

\* exists && (!movieDetails.hasFile || movieDetails.movieFile?.relativePath === "dummy.mp4")
NeedsSearch(res) == res.exists /\ (~res.hasFile \/ res.relativePath = "dummy.mp4")

\* the awaited call that follows the call `pc` in handleEvent, `res` being what
\* checkMovieInRadarr returned
NextStep(ev, pc, res) ==
    CASE pc = "ensureDirectoryExists" -> "createDummyFile"
      [] pc = "createDummyFile" -> "createSymlink"
      [] pc = "createSymlink" -> "notifyPlexFolderRefresh"
      [] pc = "cleanUpDummyFile" -> "removeDummyFolder"
      [] pc = "removeDummyFolder" ->
            IF ev.payload = "movie" /\ config4K THEN "checkMovieInRadarr"
                                                ELSE "notifyPlexFolderRefresh"
      [] pc = "checkMovieInRadarr" ->
            IF NeedsSearch(res)
            THEN "searchMovieInRadarr"
            ELSE IF ~res.exists THEN "addMovieToRadarr" ELSE "notifyPlexFolderRefresh"
      [] pc = "searchMovieInRadarr" -> "notifyPlexFolderRefresh"
      [] pc = "addMovieToRadarr" -> "notifyPlexFolderRefresh"
      [] OTHER -> "return"

\* the folder that cleanUpDummyFile is called with
CleanUpTarget(ev) ==
    IF ev.payload = "movie" THEN ev.folder ELSE dummySeasonFolder(ev.folder)

\* the folder that removeDummyFolder is called with
RemoveTarget(ev) ==
    IF ev.payload = "movie" THEN movieFolderDummy(ev.folder) ELSE dummySeasonFolder(ev.folder)

OutboundCalls == {"checkMovieInRadarr", "searchMovieInRadarr", "addMovieToRadarr",
                  "notifyPlexFolderRefresh"}

\* the arguments monitored, searchOnAdd and tags of a call that has none
NoArgs == [monitored |-> FALSE, searchOnAdd |-> FALSE, tags |-> {}]

Op(name, path, target, lib) ==
    [op |-> name, path |-> path, target |-> target, lib |-> lib, args |-> NoArgs]

\* addMovieToRadarr(tmdbId, folder, profile, true, true, url, key, ["infiniteplexlibrary"])
AddRequest(folderPath) ==
    [Op("addMovieToRadarr", folderPath, <<>>, "") EXCEPT
        !.args = [monitored |-> TRUE, searchOnAdd |-> TRUE, tags |-> {"infiniteplexlibrary"}]]

\* the request notifyPlexFolderRefresh(folderPath, libraryId) sends: the function takes
\* the folder path only and addresses the section config.PLEX_LIBRARY_ID
RescanRequest(folderPath, libraryId) ==
    Op("notifyPlexFolderRefresh", folderPath, <<>>, "PLEX_LIBRARY_ID")

\* the outbound call issued when handleEvent reaches `step`
CallRecord(ev, step) ==
    IF step = "notifyPlexFolderRefresh"
    THEN RescanRequest(ev.folder, IF ev.payload = "movie" THEN "PLEX_MOVIES_LIBRARY_ID"
                                                          ELSE "PLEX_SERIES_LIBRARY_ID")
    ELSE IF step = "addMovieToRadarr" THEN AddRequest(ev.folder)
    ELSE Op(step, ev.folder, <<>>, "")

\* faulty variant: the catch block answers like the try block
ResponseStatus_Always200(threw) == 200

\* try { await handleEvent(event); res.status(200) } catch { res.status(500) }
ResponseStatus(threw) == IF threw THEN 500 ELSE 200

\* try { ... } catch (error) { console.error(...) }: whatever the request to the media
\* server comes to, notifyPlexFolderRefresh returns normally
\* faulty variant: the catch block rethrows
NotifyRaises_Rethrow(outcome) == outcome = "error"

NotifyRaises(outcome) == FALSE

\* the dummy file and the dummy folder that the Download event ev is about are not there
DummyAbsent(f, ev) ==
    /\ RemoveTarget(ev) \notin f.dirs
    /\ join(RemoveTarget(ev), "dummy.mp4") \notin f.files
    /\ join(CleanUpTarget(ev), "dummy.mp4") \notin f.files

\* res: what checkMovieInRadarr returned; rescan: what the rescan request came to;
\* pre: what a Download handling found when it started; changed: one of the handling's
\* own steps changed the filesystem; cause: the kind of error that handleEvent threw
IdleReq == [pc |-> "idle", endpoint |-> "none", ev |-> NoEvent, ops |-> <<>>, status |-> 0,
            sent |-> 0, failed |-> "none", alone |-> TRUE, seen |-> "n/a",
            res |-> NoResult, rescan |-> "n/a", pre |-> "n/a", changed |-> FALSE,
            cause |-> "none"]

InProgress(q) == q.pc \notin {"idle", "done"}

\* a request that was just answered is closed before the model takes another step
Running == \A r \in Reqs : reqs[r].pc # "done"

WebInit ==
    /\ config4K \in BOOLEAN
    /\ fs \in {[dirs |-> d, files |-> {DUMMY_FILE_LOCATION} \cup
                                      {join(x, "dummy.mp4") : x \in d}, links |-> {}] :
                  d \in SUBSET {dummySeasonFolder(SeriesFolder)}}
    /\ reqs = [r \in Reqs |-> IdleReq]

\* res.status(...).send(...): the handling of q ends, having thrown from `failed` or not
Respond(q, failed) ==
    [q EXCEPT !.pc = "done", !.failed = failed, !.sent = q.sent + 1,
              !.status = ResponseStatus(failed # "none")]

\* the awaited call of request r returned normally, leaving the filesystem as newfs
\* and having performed `done`; handleEvent goes on to its next call or returns
Advance(r, newfs, done, res) ==
    LET q == reqs[r]
        step == NextStep(q.ev, q.pc, res)
        ops == q.ops \o done \o (IF step \in OutboundCalls THEN <<CallRecord(q.ev, step)>>
                                                          ELSE <<>>)
        seen == IF step = "notifyPlexFolderRefresh" /\ q.ev.eventType = "MovieAdded"
                THEN (IF PlaceholderPresent(newfs, q.ev.folder) THEN "present" ELSE "absent")
                ELSE q.seen
        after == [q EXCEPT !.ops = ops, !.seen = seen,
                           !.res = IF q.pc = "checkMovieInRadarr" THEN res ELSE q.res,
                           !.changed = q.changed \/ newfs # fs]
    IN  /\ fs' = newfs
        /\ reqs' = [reqs EXCEPT ![r] =
                       IF step = "return" THEN Respond(after, "none")
                       ELSE [after EXCEPT !.pc = step]]

\* faulty variant: the catch block of the endpoint undoes the placeholder of the event
Throw_Rollback(r, cause) ==
    /\ reqs' = [reqs EXCEPT ![r] = Respond([reqs[r] EXCEPT !.cause = cause], reqs[r].pc)]
    /\ fs' = [fs EXCEPT !.dirs = @ \ {movieFolderDummy(reqs[r].ev.folder)},
                        !.files = @ \ {dummyLink(reqs[r].ev.folder)}]

\* the awaited call of request r rejected with an error of kind `cause`: handleEvent
\* throws, the endpoint answers 500
Throw(r, cause) ==
    /\ reqs' = [reqs EXCEPT ![r] = Respond([reqs[r] EXCEPT !.cause = cause], reqs[r].pc)]
    /\ UNCHANGED fs

(***************************************************************************)
(* Webhook actions.                                                        *)
(***************************************************************************)
\* app.post(...): validation, then handleEvent up to its first await
Webhook(r, endpoint, ev) ==
    LET q == [IdleReq EXCEPT !.endpoint = endpoint, !.ev = ev,
                             !.alone = \A o \in Reqs : ~InProgress(reqs[o]),
                             !.pre = IF FirstStep(ev) = "cleanUpDummyFile"
                                     THEN (IF DummyAbsent(fs, ev) THEN "absent" ELSE "present")
                                     ELSE "n/a"]
        started ==
            IF Invalid(ev) THEN [q EXCEPT !.pc = "done", !.status = 400, !.sent = 1]
            ELSE IF ThrowsTypeError(ev) THEN Respond([q EXCEPT !.cause = "TypeError"], "TypeError")
            ELSE IF FirstStep(ev) = "return" THEN Respond(q, "none")
            ELSE [q EXCEPT !.pc = FirstStep(ev)]
    IN  /\ Running
        /\ reqs[r].pc = "idle"
        /\ \A o \in Reqs : reqs[o].pc = "idle" => r <= o
        /\ reqs' = [o \in Reqs |->
                       IF o = r THEN started
                       ELSE IF InProgress(reqs[o]) /\ InProgress(started)
                            THEN [reqs[o] EXCEPT !.alone = FALSE]
                            ELSE reqs[o]]
        /\ UNCHANGED <<config4K, fs>>
        /\ UNCHANGED <<pollerVars, monitors>>

RadarrWebhook(r, ev) == Webhook(r, "radarr", ev)

SonarrWebhook(r, ev) == Webhook(r, "sonarr", ev)

\* await ensureDirectoryExists(movieFolderDummy)
EnsureDirectoryExists(r, ok) ==
    /\ Running
    /\ reqs[r].pc = "ensureDirectoryExists"
    /\ LET dir == movieFolderDummy(reqs[r].ev.folder)
       IN  IF ok THEN Advance(r, ensureDirectoryExists(fs, dir),
                              <<Op("ensureDirectoryExists", dir, <<>>, "")>>, NoResult)
                 ELSE Throw(r, "EIO")
    /\ UNCHANGED config4K
    /\ UNCHANGED <<pollerVars, monitors>>

\* await createDummyFile(config.DUMMY_FILE_LOCATION, dummyLink)
CreateDummyFile(r, ok) ==
    /\ Running
    /\ reqs[r].pc = "createDummyFile"
    /\ LET dest == dummyLink(reqs[r].ev.folder)
       IN  IF ok /\ CanCreateDummyFile(fs, DUMMY_FILE_LOCATION, dest)
           THEN Advance(r, createDummyFile(fs, DUMMY_FILE_LOCATION, dest),
                        <<Op("createDummyFile", dest, DUMMY_FILE_LOCATION, "")>>, NoResult)
           ELSE Throw(r, IF ok THEN "ENOENT" ELSE "EIO")
    /\ UNCHANGED config4K
    /\ UNCHANGED <<pollerVars, monitors>>

\* await createSymlink(dummyLink, plexFolder)
CreateSymlink(r, ok) ==
    /\ Running
    /\ reqs[r].pc = "createSymlink"
    /\ LET target == dummyLink(reqs[r].ev.folder)
           at == plexFolder(reqs[r].ev.folder)
       IN  IF ok THEN Advance(r, createSymlink(fs, target, at),
                              <<Op("createSymlink", at, target, "")>>, NoResult)
                 ELSE Throw(r, "EIO")
    /\ UNCHANGED config4K
    /\ UNCHANGED <<pollerVars, monitors>>

\* await cleanUpDummyFile(movieFolder) / await cleanUpDummyFile(dummySeasonFolder)
CleanUpDummyFile(r, ok) ==
    /\ Running
    /\ reqs[r].pc = "cleanUpDummyFile"
    /\ LET folder == CleanUpTarget(reqs[r].ev)
       IN  IF ~ok THEN Throw(r, "EIO")
           ELSE IF AbsentFails(fs, join(folder, "dummy.mp4")) THEN Throw(r, "ENOENT")
           ELSE Advance(r, cleanUpDummyFile(fs, folder),
                        <<Op("cleanUpDummyFile", folder, <<>>, "")>>, NoResult)
    /\ UNCHANGED config4K
    /\ UNCHANGED <<pollerVars, monitors>>

\* await removeDummyFolder(movieFolderDummy) / await removeDummyFolder(dummySeasonFolder)
RemoveDummyFolder(r, ok) ==
    /\ Running
    /\ reqs[r].pc = "removeDummyFolder"
    /\ LET folder == RemoveTarget(reqs[r].ev)
       IN  IF ~ok THEN Throw(r, "EIO")
           ELSE IF AbsentFails(fs, folder) THEN Throw(r, "ENOENT")
           ELSE Advance(r, removeDummyFolder(fs, folder),
                        <<Op("removeDummyFolder", folder, <<>>, "")>>, NoResult)
    /\ UNCHANGED config4K
    /\ UNCHANGED <<pollerVars, monitors>>

\* const [exists, movieDetails] = await checkMovieInRadarr(...)
CheckMovieInRadarr(r, res) ==
    /\ Running
    /\ reqs[r].pc = "checkMovieInRadarr"
    /\ Advance(r, fs, <<>>, res)
    /\ UNCHANGED config4K
    /\ UNCHANGED <<pollerVars, monitors>>

\* await searchMovieInRadarr(...) / await addMovieToRadarr(...) returns
SecondaryReturn(r) ==
    /\ Running
    /\ reqs[r].pc \in {"searchMovieInRadarr", "addMovieToRadarr"}
    /\ Advance(r, fs, <<>>, NoResult)
    /\ UNCHANGED config4K
    /\ UNCHANGED <<pollerVars, monitors>>

\* a call to the secondary backend rejects (NetworkError); handleEvent has no catch
SecondaryFail(r) ==
    /\ Running
    /\ reqs[r].pc \in {"checkMovieInRadarr", "searchMovieInRadarr", "addMovieToRadarr"}
    /\ Throw(r, "NetworkError")
    /\ UNCHANGED config4K
    /\ UNCHANGED <<pollerVars, monitors>>

\* await notifyPlexFolderRefresh(...) is over: the request came to status 200, to another
\* status or to a network error; the rescan is the last call of every case of handleEvent
NotifyPlexFolderRefresh(r, outcome) ==
    /\ Running
    /\ reqs[r].pc = "notifyPlexFolderRefresh"
    /\ outcome \in {"200", "non200", "error"}
    /\ IF NotifyRaises(outcome)
       THEN Throw(r, "NetworkError")
       ELSE /\ reqs' = [reqs EXCEPT ![r] =
                           Respond([reqs[r] EXCEPT !.rescan = outcome], "none")]
            /\ UNCHANGED fs
    /\ UNCHANGED config4K
    /\ UNCHANGED <<pollerVars, monitors>>

\* the response was sent: the request is over
Close(r) ==
    /\ reqs[r].pc = "done"
    /\ reqs' = [reqs EXCEPT ![r] = IdleReq]
    /\ UNCHANGED <<config4K, fs>>
    /\ UNCHANGED <<pollerVars, monitors>>

WebNext ==
    \/ \E r \in Reqs, ev \in Events : RadarrWebhook(r, ev)
    \/ \E r \in Reqs, ev \in Events : SonarrWebhook(r, ev)
    \/ \E r \in Reqs, ok \in BOOLEAN : EnsureDirectoryExists(r, ok)
    \/ \E r \in Reqs, ok \in BOOLEAN : CreateDummyFile(r, ok)
    \/ \E r \in Reqs, ok \in BOOLEAN : CreateSymlink(r, ok)
    \/ \E r \in Reqs, ok \in BOOLEAN : CleanUpDummyFile(r, ok)
    \/ \E r \in Reqs, ok \in BOOLEAN : RemoveDummyFolder(r, ok)
    \/ \E r \in Reqs, res \in CheckResults : CheckMovieInRadarr(r, res)
    \/ \E r \in Reqs : SecondaryReturn(r)
    \/ \E r \in Reqs : SecondaryFail(r)
    \/ \E r \in Reqs, outcome \in {"200", "non200", "error"} : NotifyPlexFolderRefresh(r, outcome)
    \/ \E r \in Reqs : Close(r)

(***************************************************************************)
(* Several invocations of the pollers.  An invocation creates its interval *)
(* unconditionally; each tick of it is one step here.                      *)
(***************************************************************************)
MaxMonitors == 2

MonitorIds == 1..MaxMonitors

\* the targets: movieId of monitorAvailability, (seriesId, seasonNumber) of
\* monitorSeasonAvailability
Targets == {"movie 1", "series 1 season 1"}

NoMonitor == [target |-> "none", active |-> FALSE, attempts |-> 0]

MonitorsIdle == monitors = [m \in MonitorIds |-> NoMonitor]

\* monitorAvailability(movieId, ...) / monitorSeasonAvailability(seriesId, seasonNumber, ...)
\* is called: let attempts = 0; new Promise; setInterval
StartMonitor(m, target) ==
    /\ monitors[m].target = "none"
    /\ \A o \in MonitorIds : monitors[o].target = "none" => m <= o
    /\ monitors' = [monitors EXCEPT ![m] = [target |-> target, active |-> TRUE, attempts |-> 0]]
    /\ UNCHANGED <<pollerVars, webVars>>

\* one tick of invocation m: attempts++; the status is satisfying or not; clearInterval
\* in the availability branch and in the ceiling branch
MonitorTick(m, satisfying) ==
    /\ monitors[m].active
    /\ monitors' = [monitors EXCEPT
                       ![m].attempts = @ + 1,
                       ![m].active = ~(satisfying \/ CeilingReached(monitors[m].attempts + 1))]
    /\ UNCHANGED <<pollerVars, webVars>>

\* the promise of invocation m is resolved and its interval cleared: the invocation is over
MonitorOver(m) ==
    /\ monitors[m].target # "none"
    /\ ~monitors[m].active
    /\ monitors' = [monitors EXCEPT ![m] = NoMonitor]
    /\ UNCHANGED <<pollerVars, webVars>>

MonitorsNext ==
    \/ \E m \in MonitorIds, target \in Targets : StartMonitor(m, target)
    \/ \E m \in MonitorIds, satisfying \in BOOLEAN : MonitorTick(m, satisfying)
    \/ \E m \in MonitorIds : MonitorOver(m)

\* the state of the part a specification leaves alone
PollerIdle ==
    /\ mode = "movie" /\ attempts = 0 /\ timerActive = FALSE /\ pollState = "Polling"
    /\ ticks = [s \in Slots |-> IdleTick] /\ stopCalls = 0 /\ satisfiedCount = 0
    /\ timedOutCount = 0 /\ failure = "none" /\ lastTick = NoTick

WebIdle ==
    /\ config4K = FALSE
    /\ fs = [dirs |-> {}, files |-> {DUMMY_FILE_LOCATION}, links |-> {}]
    /\ reqs = [r \in Reqs |-> IdleReq]

InitWeb == WebInit /\ PollerIdle /\ MonitorsIdle

SpecWeb == InitWeb /\ [][WebNext]_vars

Init == PollerInit /\ WebInit /\ MonitorsIdle

Next == PollerNext \/ WebNext \/ MonitorsNext

Spec == Init /\ [][Next]_vars

InitPoller == PollerInit /\ WebIdle /\ MonitorsIdle

SpecPoller == InitPoller /\ [][PollerNext]_vars

InitMonitors == PollerIdle /\ WebIdle /\ MonitorsIdle

SpecMonitors == InitMonitors /\ [][MonitorsNext]_vars

\* the runs in which one of the two parts is at rest: the parts share no variable, so a
\* state of the program is a pair of a poller state of SpecPoller and a web state of
\* SpecWeb, and a predicate that constrains each part separately holds in every state
\* of the program if and only if it holds in these runs
InitParts == InitPoller \/ InitWeb

NextParts == (PollerIdle /\ WebNext) \/ (~PollerIdle /\ PollerNext)

SpecParts == InitParts /\ [][NextParts]_vars

(***************************************************************************)
(* Claims about the poller, checked under SpecPoller.                      *)
(***************************************************************************)
\* every status fetch so far returned a status, and none of them was a satisfying one
NeverSatisfied ==
    /\ failure = "none"
    /\ stopCalls = 0
    /\ satisfiedCount = 0
    /\ \A s \in Slots : ~MovieAvailable(ticks[s].movie)

\* C1: as long as the status sequence never satisfies, the poller times out after
\* exactly maxRetries ticks: no tick beyond the 60th is started, the poller is TimedOut
\* once the 60th tick is over, the timer is then cleared, and no stop-playback call is made.
C1_TimeoutAfterExactly60 ==
    (mode = "movie" /\ NeverSatisfied) =>
        /\ attempts <= maxRetries
        /\ pollState \in {"Polling", "TimedOut"}
        /\ pollState = "TimedOut" => (attempts = maxRetries /\ ~timerActive /\ stopCalls = 0)
        /\ (attempts = maxRetries /\ InFlight = {}) => pollState = "TimedOut"

\* C2: in movie mode, with every fetch returning a status, the poller issues at most one
\* stop-playback call and takes the Satisfied transition at most once over the whole run;
\* once the tick that saw the real file is over, it is Satisfied with exactly one call.
C2_SatisfiedOnceOneStop ==
    (mode = "movie" /\ failure = "none") =>
        /\ stopCalls <= 1
        /\ satisfiedCount <= 1
        /\ (stopCalls = 1 /\ InFlight = {}) =>
               (pollState = "Satisfied" /\ satisfiedCount = 1 /\ ~timerActive)

\* C3: at no reachable state are two ticks of the poller in flight.
C3_TicksNeverOverlap == Cardinality(InFlight) <= 1

\* C4: a failed status fetch is transient: in every run in which the process survives the
\* failed fetches, the poller is no longer Polling once the attempt counter has reached
\* the ceiling and no tick is in flight (it reached TimedOut or Satisfied, it does not go on).
C4_FailedFetchStillTimesOut ==
    (failure # "exited" /\ attempts >= maxRetries /\ InFlight = {}) => pollState # "Polling"

\* an episode is pending: it has no file, or its file is at the placeholder sentinel path
EpisodePending(ep) == ep.hasFile = FALSE \/ ep.relativePath = "dummy.mp4"

PendingCount(episodes) ==
    Cardinality({i \in DOMAIN episodes : EpisodePending(episodes[i])})

\* C5 (as claimed): a season tick with n > 0 pending episodes invokes the description
\* update exactly once with n and the poller stays Polling; a tick with none pending
\* transitions to Satisfied, stops polling and updates no description.  Stated for runs
\* without failed fetches, of a tick that found the poller Polling and ended with no
\* other tick in flight.
C5_PendingTickStaysPolling ==
    (/\ mode = "season" /\ failure = "none" /\ InFlight = {}
     /\ lastTick.n # -1 /\ lastTick.before = "Polling") =>
        IF PendingCount(lastTick.episodes) > 0
        THEN /\ lastTick.upd = 1
             /\ lastTick.arg = PendingCount(lastTick.episodes)
             /\ lastTick.after = "Polling"
        ELSE /\ lastTick.upd = 0
             /\ lastTick.after = "Satisfied"
             /\ ~timerActive

\* C5 (amended): a season tick with n > 0 pending episodes invokes the description update
\* exactly once with n, takes no Satisfied transition, and leaves a Polling poller Polling
\* unless the attempt counter has reached the ceiling, in which case the same tick times it
\* out; a tick with none pending updates no description, clears the timer and makes a
\* Polling poller Satisfied.
C5_SeasonTick ==
    (mode = "season" /\ lastTick.n # -1) =>
        IF PendingCount(lastTick.episodes) > 0
        THEN /\ lastTick.upd = 1
             /\ lastTick.arg = PendingCount(lastTick.episodes)
             /\ ~lastTick.sat
             /\ lastTick.tout <=> (attempts >= maxRetries)
             /\ lastTick.before = "Polling" =>
                    lastTick.after = (IF attempts >= maxRetries THEN "TimedOut" ELSE "Polling")
        ELSE /\ lastTick.upd = 0
             /\ lastTick.sat
             /\ ~timerActive
             /\ lastTick.after # "Polling"
             /\ lastTick.before = "Polling" => lastTick.after = "Satisfied"

\* C5 witness: a tick with some but not all episodes pending completed at the ceiling,
\* after its description update, and timed the poller out
C5_Witness ==
    /\ mode = "season"
    /\ lastTick.n > 0
    /\ lastTick.n < NumEpisodes
    /\ lastTick.upd = 1
    /\ lastTick.before = "Polling"
    /\ lastTick.after = "TimedOut"

(***************************************************************************)
(* Claims about the webhook endpoints and handleEvent, checked under       *)
(* SpecWeb.                                                                *)
(***************************************************************************)
\* the body is absent or lacks eventType (an empty eventType included)
LacksEventType(ev) == ev.body = FALSE \/ ev.eventType = "undefined" \/ ev.eventType = ""

Answered(r) == reqs[r].pc = "done"

\* C6: a request whose body is absent or lacks eventType is answered 400 at once: it
\* never has a call of handleEvent pending, performs no filesystem operation and no
\* outbound call, and starts no poller; and only such requests are answered 400.
C6_MissingEventTypeIs400 ==
    \A r \in Reqs :
        /\ (reqs[r].pc # "idle" /\ LacksEventType(reqs[r].ev)) =>
              /\ Answered(r)
              /\ reqs[r].status = 400
              /\ reqs[r].sent = 1
              /\ reqs[r].ops = <<>>
              /\ reqs[r].failed = "none"
              /\ ~timerActive /\ InFlight = {}
        /\ (Answered(r) /\ reqs[r].status = 400) => LacksEventType(reqs[r].ev)

\* C6 witness: a body with a movie payload and an empty eventType was answered 400 on
\* /sonarr-webhook while another request was being handled
C6_Witness ==
    \E r, o \in Reqs :
        /\ Answered(r) /\ reqs[r].endpoint = "sonarr" /\ reqs[r].status = 400
        /\ reqs[r].ev.body /\ reqs[r].ev.eventType = "" /\ reqs[r].ev.payload = "movie"
        /\ InProgress(reqs[o])

\* C7: a request with an eventType receives no response while it is handled and exactly
\* one when it is over: 200 if and only if no step of handleEvent threw, 500 if and only
\* if one did; whatever the other request is doing.
C7_OneResponse200Or500 ==
    \A r \in Reqs :
        /\ InProgress(reqs[r]) => (reqs[r].sent = 0 /\ reqs[r].status = 0)
        /\ (Answered(r) /\ ~LacksEventType(reqs[r].ev)) =>
              /\ reqs[r].sent = 1
              /\ reqs[r].status \in {200, 500}
              /\ reqs[r].status = 200 <=> reqs[r].failed = "none"
              /\ reqs[r].status = 500 <=> reqs[r].failed # "none"

\* C7 witness: a request that overlapped another one was answered 500 after its
\* symlink creation failed
C7_Witness ==
    \E r \in Reqs :
        /\ Answered(r) /\ ~reqs[r].alone
        /\ reqs[r].failed = "createSymlink" /\ reqs[r].status = 500 /\ reqs[r].sent = 1

\* what a MovieAdded event for movie folder F is to produce, in order
MovieAddedEffects(F) ==
    << Op("ensureDirectoryExists", <<"dummyRoot", F[Len(F)]>>, <<>>, ""),
       Op("createDummyFile", <<"dummyRoot", F[Len(F)], "dummy.mp4">>,
          <<"template", "dummy.mp4">>, ""),
       Op("createSymlink", <<"libraryRoot", F[Len(F)]>>,
          <<"dummyRoot", F[Len(F)], "dummy.mp4">>, "") >>

IsPrefixOf(s, u) == Len(s) <= Len(u) /\ s = SubSeq(u, 1, Len(s))

Rescans(ops, F) ==
    {i \in DOMAIN ops : ops[i].op = "notifyPlexFolderRefresh" /\ ops[i].path = F}

\* C8: the handling of a MovieAdded event for folder F creates the dummy directory, then
\* the dummy file from the template, then the symlink libraryRoot/basename(F) to that
\* file, and only then issues the rescan of F, with the placeholder artifact present on
\* the filesystem at that moment; a handling answered 200 has done all of it and issued
\* exactly one rescan, and no other call.
C8_MovieAddedOrder ==
    \A r \in Reqs :
        (reqs[r].pc # "idle" /\ reqs[r].ev.eventType = "MovieAdded"
                             /\ reqs[r].ev.payload = "movie") =>
            LET F == reqs[r].ev.folder
                ops == reqs[r].ops
                n == Len(MovieAddedEffects(F))
            IN  /\ IsPrefixOf(SubSeq(ops, 1, IF Len(ops) < n THEN Len(ops) ELSE n),
                              MovieAddedEffects(F))
                /\ Len(ops) <= n + 1
                /\ Len(ops) = n + 1 =>
                      /\ Rescans(ops, F) = {n + 1}
                      /\ reqs[r].seen = "present"
                /\ (Answered(r) /\ reqs[r].status = 200) => Len(ops) = n + 1
                /\ reqs[r].pc = "notifyPlexFolderRefresh" => Len(ops) = n + 1

\* C8 witness: a MovieAdded handling that overlapped another request was answered 200
\* with the placeholder artifact on the filesystem
C8_Witness ==
    \E r \in Reqs :
        /\ Answered(r) /\ reqs[r].ev.eventType = "MovieAdded" /\ reqs[r].status = 200
        /\ ~reqs[r].alone
        /\ Len(reqs[r].ops) = 4
        /\ PlaceholderPresent(fs, reqs[r].ev.folder)

\* C9: after a Download (movie) handling for folder F that ran alone and completed, F
\* having been given its placeholder by a MovieAdded handling before (its symlink is
\* there), the dummy file dummyRoot/basename(F)/dummy.mp4 and the dummy folder
\* dummyRoot/basename(F) no longer exist.
C9_DownloadRemovesPlaceholder ==
    \A r \in Reqs :
        (/\ Answered(r) /\ reqs[r].status = 200 /\ reqs[r].alone
         /\ reqs[r].ev.eventType = "Download" /\ reqs[r].ev.payload = "movie"
         /\ \E l \in fs.links : l.at = <<"libraryRoot", reqs[r].ev.folder[2]>>) =>
            /\ <<"dummyRoot", reqs[r].ev.folder[2], "dummy.mp4">> \notin fs.files
            /\ <<"dummyRoot", reqs[r].ev.folder[2]>> \notin fs.dirs

\* C10: every handling of a Download (movie) event whose placeholder cleanup did not
\* fail ends with a rescan of the movie folder as its last collaborator call, also when
\* a call to the secondary backend failed.
C10_DownloadEndsWithRescan ==
    \A r \in Reqs :
        (/\ Answered(r)
         /\ reqs[r].ev.eventType = "Download" /\ reqs[r].ev.payload = "movie"
         /\ reqs[r].failed \notin {"cleanUpDummyFile", "removeDummyFolder"}) =>
            /\ reqs[r].ops # <<>>
            /\ reqs[r].ops[Len(reqs[r].ops)].op = "notifyPlexFolderRefresh"
            /\ reqs[r].ops[Len(reqs[r].ops)].path = reqs[r].ev.folder

\* the number of calls `name` that the handling with log ops has issued
CallCount(ops, name) == Cardinality({i \in DOMAIN ops : ops[i].op = name})

\* the movie the secondary backend reported has no real content: no file, or a file at
\* the placeholder sentinel path
WithoutRealContent(res) == res.hasFile = FALSE \/ res.relativePath = "dummy.mp4"

IsMovieDownload(q) == q.pc # "idle" /\ q.ev.eventType = "Download" /\ q.ev.payload = "movie"

\* the handling q has got past its placeholder cleanup
PastCleanup(q) ==
    /\ q.pc \notin {"cleanUpDummyFile", "removeDummyFolder"}
    /\ q.failed \notin {"cleanUpDummyFile", "removeDummyFolder"}

\* C11: a Download (movie) handling makes no call to the secondary backend when none is
\* configured; when one is configured it makes exactly one existence check once its
\* cleanup is over, and then: movie present without real content => exactly one search
\* and no add; movie absent => exactly one add, monitored, searching on add and tagged
\* "infiniteplexlibrary", and no search; movie present with real content => neither.
C11_SecondaryDecision ==
    \A r \in Reqs :
        IsMovieDownload(reqs[r]) =>
            LET q == reqs[r]
                checks == CallCount(q.ops, "checkMovieInRadarr")
                searches == CallCount(q.ops, "searchMovieInRadarr")
                adds == CallCount(q.ops, "addMovieToRadarr")
            IN  /\ ~config4K => (checks = 0 /\ searches = 0 /\ adds = 0 /\ q.res = NoResult)
                /\ config4K => checks = (IF PastCleanup(q) THEN 1 ELSE 0)
                /\ q.res = NoResult => (searches = 0 /\ adds = 0)
                /\ (q.res # NoResult /\ q.res.exists /\ WithoutRealContent(q.res)) =>
                       (searches = 1 /\ adds = 0)
                /\ (q.res # NoResult /\ ~q.res.exists) => (searches = 0 /\ adds = 1)
                /\ (q.res # NoResult /\ q.res.exists /\ ~WithoutRealContent(q.res)) =>
                       (searches = 0 /\ adds = 0)
                /\ \A i \in DOMAIN q.ops :
                       q.ops[i].op = "addMovieToRadarr" =>
                           /\ q.ops[i].args.monitored
                           /\ q.ops[i].args.searchOnAdd
                           /\ q.ops[i].args.tags = {"infiniteplexlibrary"}

\* C11 witness: with a secondary backend configured, a Download (movie) handling found
\* the movie at the placeholder sentinel there, triggered one search and was answered 200
C11_Witness ==
    \E r \in Reqs :
        /\ IsMovieDownload(reqs[r]) /\ Answered(r) /\ reqs[r].status = 200 /\ config4K
        /\ reqs[r].res.exists /\ reqs[r].res.hasFile /\ reqs[r].res.relativePath = "dummy.mp4"
        /\ CallCount(reqs[r].ops, "checkMovieInRadarr") = 1
        /\ CallCount(reqs[r].ops, "searchMovieInRadarr") = 1

(***************************************************************************)
(* Claim about both parts, checked under SpecParts.                        *)
(***************************************************************************)
\* C12: a failure of the library rescan (media server unreachable, or a status other
\* than 200) is never raised to the webhook handling: no handling fails at its rescan, and
\* a handling whose rescan failed is answered 200; a failure of the description update is
\* never raised to the poller tick: the tick goes on to its ceiling test and ends as a
\* tick whose update succeeded does.
C12_PlexFailuresSwallowed ==
    /\ \A r \in Reqs :
          /\ reqs[r].failed # "notifyPlexFolderRefresh"
          /\ (Answered(r) /\ reqs[r].rescan \in {"non200", "error"}) =>
                 (reqs[r].status = 200 /\ reqs[r].sent = 1 /\ reqs[r].failed = "none")
    /\ failure # "raised"
    /\ \A s \in Slots : ticks[s].pc = "updateDescription" => ticks[s].upd = 1
    /\ lastTick.out = "error" =>
          /\ lastTick.upd = 1
          /\ lastTick.n > 0
          /\ ~lastTick.sat
          /\ lastTick.tout <=> (attempts >= maxRetries)
          /\ lastTick.before = "Polling" =>
                 lastTick.after = (IF attempts >= maxRetries THEN "TimedOut" ELSE "Polling")

\* C12 witness: a Download (series) handling whose rescan request met a network error
\* was answered 200
C12_Witness ==
    \E r \in Reqs :
        /\ Answered(r) /\ reqs[r].ev.eventType = "Download" /\ reqs[r].ev.payload = "series"
        /\ reqs[r].rescan = "error" /\ reqs[r].status = 200
        /\ Len(reqs[r].ops) = 3

\* a poller tick whose description update failed completed and left the poller Polling
C12_TickWentOn ==
    /\ mode = "season" /\ lastTick.out = "error" /\ lastTick.n > 0
    /\ lastTick.after = "Polling" /\ timerActive

(***************************************************************************)
(* Further claims about the webhook endpoints and handleEvent, checked     *)
(* under SpecWeb.                                                          *)
(***************************************************************************)
\* the event kinds handleEvent has a case for
KnownKinds == {"MovieAdded", "Download", "Grab", "Rename", "MovieDelete", "SeriesDelete",
               "HealthIssue", "Test"}

\* ev is a valid body of an observational kind or of a kind handleEvent does not know
IsObservational(ev) ==
    /\ ev.body = TRUE
    /\ ev.eventType \notin {"undefined", "", "MovieAdded", "Download"}

\* a request for an observational or unknown event is answered in the step that receives
\* it, having performed no filesystem operation and no outbound call, no poller is
\* running, and a request for an unknown kind is answered 200
ObservationalAnswered ==
    \A r \in Reqs :
        (reqs[r].pc # "idle" /\ IsObservational(reqs[r].ev)) =>
            /\ Answered(r)
            /\ reqs[r].sent = 1
            /\ reqs[r].ops = <<>>
            /\ reqs[r].changed = FALSE
            /\ reqs[r].rescan = "n/a"
            /\ ~timerActive /\ InFlight = {}
            /\ \A m \in MonitorIds : ~monitors[m].active
            /\ reqs[r].ev.eventType \notin KnownKinds =>
                   (reqs[r].status = 200 /\ reqs[r].failed = "none")

\* the step that receives such a request changes neither the filesystem, nor the
\* configuration, nor a poller, nor another request's log of calls
ObservationalStep ==
    \A r \in Reqs :
        (reqs[r].pc = "idle" /\ reqs'[r].pc # "idle" /\ IsObservational(reqs'[r].ev)) =>
            /\ fs' = fs
            /\ config4K' = config4K
            /\ pollerVars' = pollerVars
            /\ monitors' = monitors
            /\ \A o \in Reqs \ {r} : reqs'[o].ops = reqs[o].ops /\ reqs'[o].pc = reqs[o].pc

\* C13: handling Grab, Rename, MovieDelete, SeriesDelete, HealthIssue, Test or an unknown
\* eventType performs no filesystem operation and no outbound collaborator call, starts
\* no poller and leaves the filesystem unchanged; an unknown eventType is answered 200.
C13_ObservationalNoEffect == []ObservationalAnswered /\ [][ObservationalStep]_vars

\* C13 witness: an unknown eventType arrived with a movie payload while another request
\* was being handled, and was answered 200 with no call made
C13_Witness ==
    \E r, o \in Reqs :
        /\ Answered(r) /\ reqs[r].ev.eventType = "ApplicationUpdate"
        /\ reqs[r].ev.payload = "movie" /\ reqs[r].status = 200 /\ reqs[r].ops = <<>>
        /\ InProgress(reqs[o])

\* a Download event with a movie payload, or with a series payload and its episodes
IsDownload(ev) ==
    /\ ev.eventType = "Download"
    /\ ev.payload = "movie" \/ (ev.payload = "series" /\ ev.detail = TRUE)

\* the errors that come from outside the handling: an I/O fault of the filesystem, an
\* unreachable secondary backend
OutsideErrors == {"EIO", "NetworkError"}

\* C14: a Download handling (movie or series) that starts with the dummy file and the
\* dummy folder already absent, and runs with no other request in progress, changes
\* nothing on the filesystem at any of its steps; the absence makes none of its steps
\* fail: unless an I/O fault or the secondary backend fails it, it is answered 200.
C14_CleanupIdempotent ==
    \A r \in Reqs :
        (/\ reqs[r].pc # "idle" /\ IsDownload(reqs[r].ev)
         /\ reqs[r].pre = "absent" /\ reqs[r].alone) =>
            /\ reqs[r].changed = FALSE
            /\ DummyAbsent(fs, reqs[r].ev)
            /\ reqs[r].cause \in OutsideErrors \cup {"none"}
            /\ (Answered(r) /\ reqs[r].cause \notin OutsideErrors) =>
                   (reqs[r].status = 200 /\ reqs[r].failed = "none")

\* C14 witness: a Download (series) handling that found neither dummy file nor dummy
\* folder made its two cleanup calls and its rescan, and was answered 200
C14_Witness ==
    \E r \in Reqs :
        /\ Answered(r) /\ reqs[r].ev.eventType = "Download" /\ reqs[r].ev.payload = "series"
        /\ reqs[r].pre = "absent" /\ reqs[r].alone /\ reqs[r].status = 200
        /\ Len(reqs[r].ops) = 3
        /\ reqs[r].ops[1].op = "cleanUpDummyFile" /\ reqs[r].ops[2].op = "removeDummyFolder"
        /\ reqs[r].changed = FALSE

(***************************************************************************)
(* Claim about several poller invocations, checked under SpecMonitors.     *)
(***************************************************************************)
\* C15: at every reachable state no two active pollers (interval not cleared, state
\* Polling) have the same target, whatever poller starts occur.
C15_OnePollerPerTarget ==
    \A m, o \in MonitorIds :
        (m # o /\ monitors[m].active /\ monitors[o].active) =>
            monitors[m].target # monitors[o].target

(***************************************************************************)
(* Further claims about the poller, checked under SpecPoller.              *)
(***************************************************************************)
\* C16: the attempt ceiling is a hard bound: in every execution, movie or season mode,
\* with slow or failing fetches, the attempt counter never exceeds 60 (each attempt
\* starts one status fetch, so no more than 60 status fetches are started).
C16_CeilingIsHardBound == attempts <= maxRetries

\* the awaited calls of a callback: status fetches, stop-playback, description update
TickCalls == {"getMovieStatus", "isMovieDownloading", "getEpisodes", "terminateStream",
              "updateDescription"}

\* C17: once the poller is Satisfied or TimedOut, no step starts a status fetch, a
\* stop-playback call or a description update: a callback still in flight may only end.
C17_NoCallAfterTerminal ==
    [][pollState # "Polling" =>
          /\ stopCalls' = stopCalls
          /\ attempts' = attempts
          /\ \A s \in Slots :
                 (ticks'[s].pc \in TickCalls) => ticks'[s].pc = ticks[s].pc]_vars

\* C18: a tick that finds the poller Polling takes at most one of the two terminal
\* transitions: when it detects satisfaction, also with the attempt counter at 60, it
\* does not take the timeout transition as well.  Stated for runs without failed fetches
\* and for a tick that ended with no other tick in flight.
C18_OneTerminalTransition ==
    (failure = "none" /\ InFlight = {} /\ lastTick.before = "Polling") =>
        ~(lastTick.sat /\ lastTick.tout)

(***************************************************************************)
(* Claims about the rescan request and about failing filesystem steps,     *)
(* checked under SpecWeb.                                                  *)
(***************************************************************************)
\* the library id that the handling of ev passes to notifyPlexFolderRefresh
CallersLibrary(ev) ==
    IF ev.payload = "movie" THEN "PLEX_MOVIES_LIBRARY_ID" ELSE "PLEX_SERIES_LIBRARY_ID"

\* C19: every rescan request is for the folder of the event and is addressed to the
\* library id the caller passes: the movies library for MovieAdded and Download (movie),
\* the series library for Download (series).
C19_RescanTargetsCallersLibrary ==
    \A r \in Reqs :
        \A i \in DOMAIN reqs[r].ops :
            reqs[r].ops[i].op = "notifyPlexFolderRefresh" =>
                /\ reqs[r].ops[i].path = reqs[r].ev.folder
                /\ reqs[r].ops[i].lib = CallersLibrary(reqs[r].ev)

\* the filesystem steps of handleEvent
FsSteps == {"ensureDirectoryExists", "createDummyFile", "createSymlink", "cleanUpDummyFile",
            "removeDummyFolder"}

\* the filesystem operations that the handling of ev performs, in order
FsPlan(ev) ==
    IF ev.eventType = "MovieAdded"
    THEN <<"ensureDirectoryExists", "createDummyFile", "createSymlink">>
    ELSE <<"cleanUpDummyFile", "removeDummyFolder">>

\* C20: a handling that failed at a filesystem step is answered 500, once; it performed
\* exactly the steps that precede the failed one, and none after it: no rescan, no
\* other outbound call; and what the earlier steps did is still there: after a failed
\* createDummyFile or createSymlink of a MovieAdded handling that ran with no other
\* request in progress the dummy directory exists, and after a failed createSymlink the
\* dummy file as well.
C20_FsFailurePropagates ==
    \A r \in Reqs :
        (Answered(r) /\ reqs[r].failed \in FsSteps) =>
            LET q == reqs[r]
                plan == FsPlan(q.ev)
                k == CHOOSE i \in DOMAIN plan : plan[i] = q.failed
                F == q.ev.folder
            IN  /\ q.status = 500 /\ q.sent = 1
                /\ q.rescan = "n/a"
                /\ Len(q.ops) = k - 1
                /\ \A i \in DOMAIN q.ops : q.ops[i].op = plan[i]
                /\ (q.ev.eventType = "MovieAdded" /\ q.alone /\ k >= 2) =>
                       <<"dummyRoot", F[Len(F)]>> \in fs.dirs
                /\ (q.ev.eventType = "MovieAdded" /\ q.alone /\ k = 3) =>
                       <<"dummyRoot", F[Len(F)], "dummy.mp4">> \in fs.files

\* C20 witness: a MovieAdded handling that ran alone created the dummy directory and the
\* dummy file, failed at the symlink and was answered 500; there is no symlink
C20_Witness ==
    \E r \in Reqs :
        /\ Answered(r) /\ reqs[r].ev.eventType = "MovieAdded" /\ reqs[r].alone
        /\ reqs[r].failed = "createSymlink" /\ reqs[r].status = 500
        /\ Len(reqs[r].ops) = 2
        /\ movieFolderDummy(reqs[r].ev.folder) \in fs.dirs
        /\ dummyLink(reqs[r].ev.folder) \in fs.files
        /\ fs.links = {}

====
